---- MODULE Spec2Model ----
(***************************************************************************)
(* Model of curbside.go: a crawler that walks a remote tree of URLs with   *)
(* a bounded number of concurrent fetches (crawl / fetchID) and prints the *)
(* collected secrets in listing order (readSecretsMap).                    *)
(*                                                                         *)
(* A Go string is a sequence of one-character strings, so that             *)
(* bytes.ToLower and the concatenation done by fmt.Print are computed.     *)
(* An optional JSON key is a sequence of length 0 (absent) or 1 (present). *)
(***************************************************************************)
EXTENDS Integers, Sequences, FiniteSets, TLC

VARIABLES
    tree,          \* the remote source: requested id -> HTTP response
    workers,       \* the goroutines started by crawl, in spawn order
    requestsChan,  \* number of tokens buffered in requestsChan
    resultsChan,   \* buffered results, oldest first
    closed,        \* resultsChan has been closed
    pc,            \* position of the main goroutine in crawl
    fetching,      \* the loop counter of crawl
    idResponse,    \* the result the loop body is processing
    index,         \* the range index of the inner loop (1-based here)
    secretsMap,    \* map[string][]Secret
    stack,         \* active calls of readSecretsMap, innermost last
    output,        \* what fmt.Print has written so far
    crashed,       \* "none", or why the process died
    processed,     \* history: worker numbers in the order crawl dequeued them
    visited        \* history: the entries readSecretsMap has iterated over

vars == <<tree, workers, requestsChan, resultsChan, closed, pc, fetching,
          idResponse, index, secretsMap, stack, output, crashed, processed,
          visited>>

----------------------------------------------------------------------------
(* Bounds of the model *)

\* capacity of requestsChan; the source uses 16, the model a small capacity
RequestsCap == 2
\* capacity of resultsChan; the source uses 8000, the model a small capacity
ResultsCap == 2
\* number of nested readSecretsMap calls after which the Go stack is exhausted
MaxStack == 6

----------------------------------------------------------------------------
(* Strings *)

rootID == <<"R", "O", "O", "T">>
StartID == <<"s", "t", "a", "r", "t">>
NoSecret == <<"n", "o">>
EmptyString == <<>>

ToLowerChar(c) ==
    CASE c = "X" -> "x"
      [] c = "Y" -> "y"
      [] c = "N" -> "n"
      [] c = "O" -> "o"
      [] c = "A" -> "a"
      [] c = "B" -> "b"
      [] OTHER -> c

ToLower(s) == [i \in 1..Len(s) |-> ToLowerChar(s[i])]

ToLowerOpt(o) == [i \in 1..Len(o) |-> ToLower(o[i])]

ToLowerList(l) == [i \in 1..Len(l) |-> ToLower(l[i])]

Range(f) == {f[i] : i \in DOMAIN f}

----------------------------------------------------------------------------
(* The wire form of the "next" field and NextWrapper.UnmarshalJSON *)

NextAbsent == [kind |-> "absent", s |-> <<>>, l |-> <<>>]
NextScalar(x) == [kind |-> "scalar", s |-> x, l |-> <<>>]
NextList(xs) == [kind |-> "list", s |-> <<>>, l |-> xs]
NextNumber == [kind |-> "number", s |-> <<>>, l |-> <<>>]

\* json.Unmarshal(data, &nextList) succeeds on a JSON array of strings
UnmarshalAsList(data) == [err |-> data.kind # "list", v |-> data.l]

\* json.Unmarshal(data, &nextString) succeeds on a JSON string
UnmarshalAsString(data) == [err |-> data.kind # "scalar", v |-> data.s]

UnmarshalJSON_DropScalar(data) ==
    IF UnmarshalAsList(data).err
    THEN [err |-> UnmarshalAsString(data).err, IDs |-> <<>>]
    ELSE [err |-> FALSE, IDs |-> UnmarshalAsList(data).v]

UnmarshalJSON(data) ==
    IF UnmarshalAsList(data).err
    THEN IF UnmarshalAsString(data).err
         THEN [err |-> TRUE, IDs |-> <<>>]
         ELSE [err |-> FALSE, IDs |-> <<UnmarshalAsString(data).v>>]
    ELSE [err |-> FALSE, IDs |-> UnmarshalAsList(data).v]

----------------------------------------------------------------------------
(* HTTP responses and their decoding in fetchID *)

\* a response: transport outcome, status code and the keys of the JSON body
Body(id, depth, secret, message, next) ==
    [transport |-> "ok", status |-> 200, id |-> id, depth |-> depth,
     secret |-> secret, message |-> message, next |-> next,
     parentid |-> <<>>, orderindex |-> <<>>]

NotFound == [Body(<<>>, <<>>, <<>>, <<>>, NextAbsent) EXCEPT !.status = 404]

\* bytes.ToLower(body): every string of the body is lowered, values included
ToLowerBody(b) ==
    [b EXCEPT !.id = ToLowerOpt(@), !.secret = ToLowerOpt(@),
              !.message = ToLowerOpt(@), !.parentid = ToLowerOpt(@),
              !.next = [@ EXCEPT !.s = ToLower(@), !.l = ToLowerList(@)]]

OptOr(o, default) == IF o = <<>> THEN default ELSE o[1]

\* json.Unmarshal(body, &idResponse): a key that is present overwrites the
\* field of the same (case-insensitive) name, an absent key leaves it alone
Unmarshal(b, init) ==
    [ID         |-> OptOr(b.id, init.ID),
     Depth      |-> OptOr(b.depth, init.Depth),
     Secret     |-> OptOr(b.secret, init.Secret),
     Message    |-> OptOr(b.message, init.Message),
     Next       |-> IF b.next.kind = "absent" THEN init.Next
                    ELSE UnmarshalJSON(b.next).IDs,
     ParentID   |-> OptOr(b.parentid, init.ParentID),
     OrderIndex |-> OptOr(b.orderindex, init.OrderIndex)]

UnmarshalFails(b) == b.next.kind # "absent" /\ UnmarshalJSON(b.next).err

\* new(CurbIDResponse) with the three fields fetchID sets before decoding
NewResponse(parentID, orderIndex) ==
    [ID |-> EmptyString, Depth |-> 0, Secret |-> NoSecret,
     Message |-> EmptyString, Next |-> <<>>,
     ParentID |-> parentID, OrderIndex |-> orderIndex]

\* what the server answers to GET ID_URL + id
Get(t, id) == IF id \in DOMAIN t THEN t[id] ELSE NotFound

FetchPanics_Never(t, id) == FALSE

\* the panics of fetchID: client.Do fails, status is not 200, body undecodable
FetchPanics(t, id) ==
    \/ Get(t, id).transport # "ok"
    \/ Get(t, id).status # 200
    \/ UnmarshalFails(ToLowerBody(Get(t, id)))

\* the value fetchID sends on resultsChan
FetchResult(t, id, parentID, orderIndex) ==
    Unmarshal(ToLowerBody(Get(t, id)), NewResponse(parentID, orderIndex))

----------------------------------------------------------------------------
(* The remote sources the traversal is run against *)

idA == <<"a">>
idB == <<"b">>
idC == <<"c">>
idD == <<"d">>
idE == <<"e">>
IdPool == <<idA, idB, idC, idD, idE, <<"f">>, <<"g">>, <<"h">>>>

Str(c) == <<c>>

\* a node without fragment that lists children, and a node with a fragment
Inner(id, depth, kids) == Body(<<id>>, <<depth>>, <<NoSecret>>, <<>>, NextList(kids))
Leaf(id, depth, secret) == Body(<<id>>, <<depth>>, <<secret>>, <<>>, NextList(<<>>))

WithKey(f, k, v) == [x \in DOMAIN f \cup {k} |-> IF x = k THEN v ELSE f[x]]

\* root [a, b, c], b [d, e]; e carries the empty fragment
TreeOrder ==
    (StartID :> Inner(StartID, 0, <<idA, idB, idC>>)) @@
    (idA :> Leaf(idA, 1, Str("x"))) @@
    (idB :> Inner(idB, 1, <<idD, idE>>)) @@
    (idC :> Leaf(idC, 1, Str("z"))) @@
    (idD :> Leaf(idD, 2, Str("y"))) @@
    (idE :> Leaf(idE, 2, EmptyString))

\* a root with more children than both channels hold together
WideKids == SubSeq(IdPool, 1, RequestsCap + ResultsCap + 1)
TreeWide ==
    [id \in {StartID} \cup Range(WideKids) |->
        IF id = StartID THEN Inner(StartID, 0, WideKids)
        ELSE Leaf(id, 1, Str("x"))]

\* one child answers, the other fails in one of the three ways
TreeFail(how) ==
    (StartID :> Inner(StartID, 0, <<idA, idB>>)) @@
    (idA :> Leaf(idA, 1, Str("x"))) @@
    (idB :> CASE how = "transport" -> [Leaf(idB, 1, Str("y")) EXCEPT !.transport = "error"]
              [] how = "status" -> [Leaf(idB, 1, Str("y")) EXCEPT !.status = 500]
              [] OTHER -> [Leaf(idB, 1, Str("y")) EXCEPT !.next = NextNumber])

\* leaves that list children: a with a fragment, b with the empty fragment
TreeLeafKids ==
    (StartID :> Inner(StartID, 0, <<idA, idB>>)) @@
    (idA :> [Leaf(idA, 1, Str("x")) EXCEPT !.next = NextList(<<idC>>)]) @@
    (idB :> [Leaf(idB, 1, EmptyString) EXCEPT !.next = NextScalar(idD)]) @@
    (idC :> Leaf(idC, 2, Str("y"))) @@
    (idD :> Leaf(idD, 2, Str("z")))

\* the single child in scalar form and in list form; a omits its secret key
TreeScalar(form) ==
    (StartID :> [Inner(StartID, 0, <<>>) EXCEPT
                    !.next = IF form = "scalar" THEN NextScalar(idA)
                             ELSE NextList(<<idA>>)]) @@
    (idA :> Body(<<idA>>, <<1>>, <<>>, <<>>, NextList(<<idB, idC>>))) @@
    (idB :> [Leaf(idB, 2, Str("z")) EXCEPT !.next = NextAbsent]) @@
    (idC :> Leaf(idC, 2, Str("y")))

\* a reports the id of its sibling b
TreeWrongID ==
    (StartID :> Inner(StartID, 0, <<idA, idB>>)) @@
    (idA :> Inner(idB, 1, <<idC>>)) @@
    (idB :> Leaf(idB, 1, Str("y"))) @@
    (idC :> Leaf(idC, 2, Str("x")))

\* the root and a omit their id
TreeNoID ==
    (StartID :> [Inner(StartID, 0, <<idA, idB>>) EXCEPT !.id = <<>>]) @@
    (idA :> [Inner(idA, 1, <<idC>>) EXCEPT !.id = <<>>]) @@
    (idB :> Leaf(idB, 1, Str("y"))) @@
    (idC :> Leaf(idC, 2, Str("x")))

\* only the root omits its id
TreeRootNoID ==
    (StartID :> [Inner(StartID, 0, <<idA, idB>>) EXCEPT !.id = <<>>]) @@
    (idA :> Leaf(idA, 1, Str("x"))) @@
    (idB :> Leaf(idB, 1, Str("y")))

\* responses that carry a "parentid" or an "orderindex" key
TreeParentKey ==
    (StartID :> Inner(StartID, 0, <<idA, idB>>)) @@
    (idA :> [Leaf(idA, 1, Str("x")) EXCEPT !.parentid = <<<<"z", "z">>>>]) @@
    (idB :> Leaf(idB, 1, Str("y")))

TreeOrderKey ==
    (StartID :> Inner(StartID, 0, <<idA, idB>>)) @@
    (idA :> [Leaf(idA, 1, Str("x")) EXCEPT !.orderindex = <<5>>]) @@
    (idB :> Leaf(idB, 1, Str("y")))

\* messages: on the root only; on a child that reports its depth; on a child
\* that omits its depth; on a root that reports depth 1
TreeMessage(which) ==
    (StartID :> [Inner(StartID, 0, <<idA>>) EXCEPT
                    !.message = IF which = "child" THEN <<>> ELSE <<Str("m")>>,
                    !.depth = IF which = "rootdepth" THEN <<1>> ELSE <<0>>]) @@
    (idA :> [Leaf(idA, 1, Str("x")) EXCEPT
                    !.message = IF which \in {"child", "childnodepth"}
                                THEN <<Str("m")>> ELSE <<>>,
                    !.depth = IF which = "childnodepth" THEN <<>> ELSE <<1>>])

\* fragments and the sentinel in upper case
TreeUpper ==
    (StartID :> Inner(StartID, 0, <<idA, idB>>)) @@
    (idA :> Leaf(idA, 1, Str("X"))) @@
    (idB :> Leaf(idB, 1, Str("Y")))

\* the root lists the same identifier twice
TreeDup ==
    (StartID :> Inner(StartID, 0, <<idA, idA>>)) @@
    (idA :> Leaf(idA, 1, Str("x")))

Trees ==
    {TreeOrder, TreeWide, TreeLeafKids, TreeWrongID, TreeNoID, TreeRootNoID,
     TreeParentKey, TreeOrderKey, TreeUpper, TreeDup}
    \cup {TreeFail(how) : how \in {"transport", "status", "body"}}
    \cup {TreeScalar(form) : form \in {"scalar", "list"}}
    \cup {TreeMessage(which) : which \in {"root", "child", "childnodepth", "rootdepth"}}


----------------------------------------------------------------------------
(* State *)

Running == crashed = "none" /\ pc # "exit"

\* go fetchID(id, session, parentID, orderIndex); by is the worker whose
\* result listed this id (0 for the root), slot tells whether the goroutine
\* releases a token of requestsChan when fetchID returns
Goroutine(id, parentID, orderIndex, slot, by) ==
    [id |-> id, parentID |-> parentID, orderIndex |-> orderIndex,
     slot |-> slot, by |-> by, pc |-> "fetch",
     resp |-> NewResponse(parentID, orderIndex)]

NoResponse == [resp |-> NewResponse(EmptyString, 0), wid |-> 0]

Init ==
    /\ tree \in Trees
    /\ workers = <<>>
    /\ requestsChan = 0
    /\ resultsChan = <<>>
    /\ closed = FALSE
    /\ pc = "start"
    /\ fetching = 0
    /\ idResponse = NoResponse
    /\ index = 1
    /\ secretsMap = <<>>
    /\ stack = <<>>
    /\ output = <<>>
    /\ crashed = "none"
    /\ processed = <<>>
    /\ visited = <<>>

----------------------------------------------------------------------------
(* fetchID and the goroutine around it *)

\* lines 109-142: the request, the checks and the decoding
DoFetch(w) ==
    /\ Running
    /\ workers[w].pc = "fetch"
    /\ IF FetchPanics(tree, workers[w].id)
       THEN /\ crashed' = "fetch"
            /\ UNCHANGED workers
       ELSE /\ workers' = [workers EXCEPT
                  ![w].pc = "send",
                  ![w].resp = FetchResult(tree, workers[w].id,
                                  workers[w].parentID, workers[w].orderIndex)]
            /\ UNCHANGED crashed
    /\ UNCHANGED <<tree, requestsChan, resultsChan, closed, pc, fetching,
                   idResponse, index, secretsMap, stack, output, processed,
                   visited>>

\* a send on resultsChan proceeds when the buffer has room or panics when the
\* channel is closed
CanSend == closed \/ Len(resultsChan) < ResultsCap

\* line 143: resultsChan <- *idResponse
SendResult(w) ==
    /\ Running
    /\ workers[w].pc = "send"
    /\ CanSend
    /\ IF closed
       THEN /\ crashed' = "send on closed channel"
            /\ UNCHANGED <<workers, resultsChan>>
       ELSE /\ resultsChan' = Append(resultsChan,
                                  [resp |-> workers[w].resp, wid |-> w])
            /\ workers' = [workers EXCEPT
                  ![w].pc = IF workers[w].slot THEN "release" ELSE "done"]
            /\ UNCHANGED crashed
    /\ UNCHANGED <<tree, requestsChan, closed, pc, fetching, idResponse,
                   index, secretsMap, stack, output, processed, visited>>

\* line 196: <-requestsChan
Release(w) ==
    /\ Running
    /\ workers[w].pc = "release"
    /\ requestsChan > 0
    /\ requestsChan' = requestsChan - 1
    /\ workers' = [workers EXCEPT ![w].pc = "done"]
    /\ UNCHANGED <<tree, resultsChan, closed, pc, fetching, idResponse,
                   index, secretsMap, stack, output, crashed, processed,
                   visited>>

----------------------------------------------------------------------------
(* crawl *)

\* lines 162-166: the root fetch takes no token of requestsChan
CrawlStart ==
    /\ Running
    /\ pc = "start"
    /\ workers' = <<Goroutine(StartID, rootID, 0, FALSE, 0)>>
    /\ fetching' = 1
    /\ pc' = "recv"
    /\ UNCHANGED <<tree, requestsChan, resultsChan, closed, idResponse, index,
                   secretsMap, stack, output, crashed, processed, visited>>

LoopNext_Early(n) == IF n - 1 > 1 THEN "recv" ELSE "close"

\* the post statement and the condition of the for loop of line 166
LoopNext(n) == IF n - 1 > 0 THEN "recv" ELSE "close"

UnexpectedMessage_Never(r) == FALSE

\* line 169
UnexpectedMessage(r) == r.Message # EmptyString /\ r.Depth # 0

\* lines 174-179
Secret(r) == [ID |-> r.ID, Value |-> r.Secret, OrderIndex |-> r.OrderIndex]

Bucket(m, k) == IF k \in DOMAIN m THEN m[k] ELSE <<>>

AppendSecret(m, r) == WithKey(m, r.ParentID, Append(Bucket(m, r.ParentID), Secret(r)))

\* line 182 and the range of line 187: nothing to schedule
NothingToHop(r) == r.Secret # NoSecret \/ r.Next = <<>>

\* lines 167-185: one result is taken from resultsChan, checked and recorded
Receive ==
    /\ Running
    /\ pc = "recv"
    /\ resultsChan # <<>>
    /\ resultsChan' = Tail(resultsChan)
    /\ idResponse' = Head(resultsChan)
    /\ processed' = Append(processed, Head(resultsChan).wid)
    /\ LET r == Head(resultsChan).resp IN
       IF UnexpectedMessage(r)
       THEN /\ crashed' = "message"
            /\ UNCHANGED <<secretsMap, fetching, pc, index>>
       ELSE /\ secretsMap' = AppendSecret(secretsMap, r)
            /\ index' = 1
            /\ UNCHANGED crashed
            /\ IF NothingToHop(r)
               THEN /\ fetching' = fetching - 1
                    /\ pc' = LoopNext(fetching)
               ELSE /\ pc' = "sched"
                    /\ UNCHANGED fetching
    /\ UNCHANGED <<tree, workers, requestsChan, closed, stack, output, visited>>

Child_Last(r, i) == r.Next[Len(r.Next)]

\* lines 187 and 194-197: the identifier the goroutine of position i is given
Child(r, i) == r.Next[i]

CanAdmit_Always == TRUE

\* line 189: requestsChan <- true blocks while the buffer is full
CanAdmit == requestsChan < RequestsCap

\* lines 189-197 for one child, and the end of the iteration after the last
Schedule ==
    /\ Running
    /\ pc = "sched"
    /\ CanAdmit
    /\ requestsChan' = requestsChan + 1
    /\ workers' = Append(workers,
                     Goroutine(Child(idResponse.resp, index), idResponse.resp.ID,
                               index - 1, TRUE, idResponse.wid))
    /\ IF index < Len(idResponse.resp.Next)
       THEN /\ index' = index + 1
            /\ fetching' = fetching + 1
            /\ UNCHANGED pc
       ELSE /\ index' = 1
            /\ fetching' = fetching
            /\ pc' = LoopNext(fetching + 1)
    /\ UNCHANGED <<tree, resultsChan, closed, idResponse, secretsMap, stack,
                   output, crashed, processed, visited>>

\* lines 200-201: close(resultsChan), then the call readSecretsMap(secretsMap, rootID)
Close ==
    /\ Running
    /\ pc = "close"
    /\ closed' = TRUE
    /\ pc' = "read"
    /\ stack' = <<[id |-> rootID, at |-> 0]>>
    /\ UNCHANGED <<tree, workers, requestsChan, resultsChan, fetching,
                   idResponse, index, secretsMap, output, crashed, processed,
                   visited>>


----------------------------------------------------------------------------
(* readSecretsMap, one call frame per active call: id is the argument, at is
   0 before the lookup of line 148 and the range position afterwards *)

Injective(f) == \A i, j \in DOMAIN f : f[i] = f[j] => i = j

SortSlice_Overwrite(list) == {[i \in 1..Len(list) |-> list[1]]}

\* line 150: the results sort.Slice may leave in the slice, which is some
\* arrangement of its elements in which no element is less than an earlier one
SortSlice(list) ==
    {[i \in 1..Len(list) |-> list[f[i]]] :
        f \in {g \in [1..Len(list) -> 1..Len(list)] :
                 /\ Injective(g)
                 /\ \A i, j \in 1..Len(list) :
                       i < j => ~(list[g[j]].OrderIndex < list[g[i]].OrderIndex)}}

\* line 152
Printed(secret) ==
    IF secret.Value # EmptyString /\ secret.Value # NoSecret
    THEN secret.Value ELSE <<>>

Top == stack[Len(stack)]

Pop == SubSeq(stack, 1, Len(stack) - 1)

\* the return of a call; the return of the outermost call ends crawl and main
Return ==
    /\ stack' = Pop
    /\ pc' = IF Len(stack) = 1 THEN "exit" ELSE pc

\* lines 148-150: the lookup, and the sort of the bucket in place
ReadEnter ==
    /\ Running
    /\ pc = "read"
    /\ stack # <<>>
    /\ Top.at = 0
    /\ IF Top.id \in DOMAIN secretsMap
       THEN /\ \E sorted \in SortSlice(secretsMap[Top.id]) :
                  secretsMap' = [secretsMap EXCEPT ![Top.id] = sorted]
            /\ stack' = [stack EXCEPT ![Len(stack)].at = 1]
            /\ UNCHANGED pc
       ELSE /\ Return
            /\ UNCHANGED secretsMap
    /\ UNCHANGED <<tree, workers, requestsChan, resultsChan, closed, fetching,
                   idResponse, index, output, crashed, processed, visited>>

\* lines 151-155: one iteration of the range, up to the recursive call
ReadVisit ==
    /\ Running
    /\ pc = "read"
    /\ stack # <<>>
    /\ Top.at > 0
    /\ Top.at <= Len(secretsMap[Top.id])
    /\ LET secret == secretsMap[Top.id][Top.at] IN
         /\ output' = output \o Printed(secret)
         /\ visited' = Append(visited, [key |-> Top.id, entry |-> secret])
         /\ IF Len(stack) < MaxStack
            THEN /\ stack' = Append([stack EXCEPT ![Len(stack)].at = Top.at + 1],
                                    [id |-> secret.ID, at |-> 0])
                 /\ UNCHANGED crashed
            ELSE /\ crashed' = "stack overflow"
                 /\ UNCHANGED stack
    /\ UNCHANGED <<tree, workers, requestsChan, resultsChan, closed, pc,
                   fetching, idResponse, index, secretsMap, processed>>

\* lines 156-158: the range is exhausted
ReadReturn ==
    /\ Running
    /\ pc = "read"
    /\ stack # <<>>
    /\ Top.at > 0
    /\ Top.at > Len(secretsMap[Top.id])
    /\ Return
    /\ UNCHANGED <<tree, workers, requestsChan, resultsChan, closed, fetching,
                   idResponse, index, secretsMap, output, crashed, processed,
                   visited>>

----------------------------------------------------------------------------

Next ==
    \/ CrawlStart
    \/ \E w \in DOMAIN workers : DoFetch(w)
    \/ \E w \in DOMAIN workers : SendResult(w)
    \/ \E w \in DOMAIN workers : Release(w)
    \/ Receive
    \/ Schedule
    \/ Close
    \/ ReadEnter
    \/ ReadVisit
    \/ ReadReturn

Spec == Init /\ [][Next]_vars


----------------------------------------------------------------------------
(* Vocabulary of the properties *)

\* the node descriptor a fetch of id decodes to
Descriptor(id) == FetchResult(tree, id, EmptyString, 0)

\* a fetch of id fails: transport error, non-200 status or undecodable body
FetchFails(id) ==
    \/ Get(tree, id).transport # "ok"
    \/ Get(tree, id).status # 200
    \/ Get(tree, id).next.kind = "number"

IsSentinel(id) == Descriptor(id).Secret = NoSecret

RECURSIVE Concat(_)
Concat(seqs) == IF seqs = <<>> THEN <<>> ELSE Head(seqs) \o Concat(Tail(seqs))

\* the fragments below id in depth-first pre-order, children in listed order
RECURSIVE PreOrder(_)
PreOrder(id) ==
    IF FetchFails(id) THEN <<>>
    ELSE IF ~IsSentinel(id) THEN Descriptor(id).Secret
    ELSE Concat([i \in 1..Len(Descriptor(id).Next) |->
                    PreOrder(Descriptor(id).Next[i])])

InNetwork == {w \in DOMAIN workers : workers[w].pc = "fetch"}

Fetched == {w \in DOMAIN workers : workers[w].pc # "fetch"}

\* the results crawl recorded in the map (a result that made it panic is not)
Recorded ==
    {processed[i] : i \in {j \in 1..Len(processed) :
                              j < Len(processed) \/ crashed # "message"}}

\* the key under which the fetch of worker w was scheduled to be recorded:
\* the requested identifier of the node that listed it
ScheduledParent(w) ==
    IF workers[w].by = 0 THEN rootID ELSE workers[workers[w].by].id

LoopDone == pc \in {"close", "read", "exit"}

----------------------------------------------------------------------------
(* Properties *)

\* C1: when crawl has finished, the output is the concatenation of the
\* non-sentinel fragments of the tree in depth-first pre-order, the children of
\* each node in the order the node listed them, for every tree and every
\* completion order.
C1_OutputIsPreOrder == pc = "exit" => output = PreOrder(StartID)

\* C2: the number of fetches performing their network operation at the same
\* time, the root fetch included, never exceeds the capacity of requestsChan.
C2_ConcurrencyCap == Cardinality(InNetwork) <= RequestsCap

\* the gate is saturated by fetches in progress while crawl has more children
\* of the same node to admit
C2_Saturated ==
    /\ pc = "sched"
    /\ Cardinality(InNetwork) = RequestsCap
    /\ requestsChan = RequestsCap

\* C3: while every fetch succeeds and no message is rejected, a traversal that
\* has not finished can always take a step: the main loop and the workers
\* never all wait on each other.
C3_NeverStuck == (crashed = "none" /\ pc # "exit") => ENABLED Next

\* C4: a failed fetch makes the traversal fail and nothing is ever written;
\* reconstruction runs, and output exists, only when every scheduled fetch has
\* succeeded and its result has been processed.
C4_FatalAbort ==
    /\ crashed = "fetch" => output = <<>>
    /\ \A w \in Fetched : FetchFails(workers[w].id) => crashed = "fetch"
    /\ (LoopDone \/ output # <<>>) =>
          \A w \in DOMAIN workers :
              /\ ~FetchFails(workers[w].id)
              /\ workers[w].pc \in {"release", "done"}
              /\ w \in Recorded

\* one branch has been recorded in the map when the fetch of another fails
C4_AbortAfterPartialSuccess ==
    /\ crashed = "fetch"
    /\ \E w \in Recorded : workers[w].resp.Secret \notin {NoSecret, EmptyString}
    /\ output = <<>>


\* the entry crawl records for the result of worker w
EntryOf(w) == Secret(workers[w].resp)

IsLeafResult(w) == workers[w].resp.Secret # NoSecret

\* readSecretsMap has iterated over the entry of worker w
Contributed(w) ==
    \E i \in 1..Len(visited) :
        /\ visited[i].key = workers[w].resp.ParentID
        /\ visited[i].entry = EntryOf(w)

\* the sentinel results never contributed a worker's parent: every scheduled
\* fetch was listed by a result whose fragment is the sentinel
NoLeafExpanded ==
    \A w \in DOMAIN workers : workers[w].by # 0 => ~IsLeafResult(workers[w].by)

LeavesContributed ==
    pc = "exit" => \A w \in Recorded : IsLeafResult(w) => Contributed(w)

\* crawl is dequeuing the result of a leaf in this step, without panicking
ReceivesLeaf ==
    /\ pc = "recv"
    /\ processed' # processed
    /\ crashed' = "none"
    /\ Head(resultsChan).resp.Secret # NoSecret

\* C5: a node whose fragment is not the sentinel (the empty string included)
\* contributes its fragment to the output, none of its listed children is
\* ever scheduled, and the step that processes it decrements the counter.
C5_LeafTermination ==
    [][/\ NoLeafExpanded'
       /\ ReceivesLeaf => (fetching' = fetching - 1 /\ workers' = workers)
       /\ LeavesContributed'
      ]_vars

\* readSecretsMap is iterating over a sentinel entry in this step
VisitsSentinel ==
    /\ pc = "read"
    /\ visited' # visited
    /\ secretsMap[Top.id][Top.at].Value = NoSecret

\* once the loop is over, every child listed by a recorded sentinel result has
\* a fetch with the requested identifier of that node as parent and its
\* position as order index
ChildrenScheduled ==
    LoopDone =>
        \A p \in Recorded : ~IsLeafResult(p) =>
            \A i \in 1..Len(workers[p].resp.Next) :
                \E w \in DOMAIN workers :
                    /\ workers[w].by = p
                    /\ workers[w].id = workers[p].resp.Next[i]
                    /\ workers[w].orderIndex = i - 1
                    /\ workers[w].parentID = workers[p].id

\* C6: a node whose fragment is the sentinel contributes nothing to the
\* output, and once the loop is over every identifier of its children list
\* has been scheduled, with that node's requested identifier as parent and
\* its position in the list as order index.
C6_SentinelSkip ==
    [][/\ VisitsSentinel => output' = output
       /\ ChildrenScheduled'
      ]_vars

\* C7: the ID of every entry of the map is the identifier that was requested
\* by the fetch the entry comes from.
C7_EntryHasRequestedID ==
    \A k \in DOMAIN secretsMap : \A i \in 1..Len(secretsMap[k]) :
        \E w \in Recorded :
            /\ secretsMap[k][i].ID = workers[w].id
            /\ secretsMap[k][i].Value = workers[w].resp.Secret

\* C8: every recorded entry is in the bucket of the parent its fetch was
\* scheduled under (the requested identifier of the node that listed it, or
\* the root key), with the order index it was scheduled with, and in no other
\* bucket: the response cannot change either.
C8_EntryUnderScheduledParent ==
    \A w \in Recorded :
        LET e == [EntryOf(w) EXCEPT !.OrderIndex = workers[w].orderIndex] IN
          /\ \E i \in 1..Len(Bucket(secretsMap, ScheduledParent(w))) :
                 secretsMap[ScheduledParent(w)][i] = e
          /\ \A k \in DOMAIN secretsMap : \A i \in 1..Len(secretsMap[k]) :
                 secretsMap[k][i] = e => k = ScheduledParent(w)

\* C9: a result with a non-empty message aborts the traversal exactly when it
\* is not the first result crawl dequeues, whatever depth it reports.
C9_MessageOnlyOnFirst ==
    /\ \A i \in 2..Len(processed) :
           workers[processed[i]].resp.Message # EmptyString =>
               (crashed = "message" /\ i = Len(processed))
    /\ crashed = "message" => Len(processed) > 1

\* C10: a fetched response decodes to the same descriptor whether its next
\* field is the bare string x or the list [x], with x as the only child; a
\* list decodes to its elements in their order; and the traversal of either
\* form of the same tree prints the same output.
C10_ScalarAsList ==
    /\ \A w \in Fetched :
          LET b == ToLowerBody(Get(tree, workers[w].id)) IN
            /\ b.next.kind = "scalar" =>
                  /\ workers[w].resp.Next = <<b.next.s>>
                  /\ workers[w].resp =
                        Unmarshal([b EXCEPT !.next = NextList(<<b.next.s>>)],
                                  NewResponse(workers[w].parentID,
                                              workers[w].orderIndex))
            /\ b.next.kind = "list" => workers[w].resp.Next = b.next.l
    /\ \A w \in DOMAIN workers :
          (workers[w].by # 0
              /\ Get(tree, workers[workers[w].by].id).next.kind = "scalar")
            => (workers[w].orderIndex = 0 /\
                workers[w].id = ToLower(Get(tree, workers[workers[w].by].id).next.s))
    /\ (pc = "exit" /\ tree \in {TreeScalar("scalar"), TreeScalar("list")})
          => output = <<"z", "y">>

\* the child named by a bare string has been scheduled, fetched and printed
C10_ScalarChildTraversed ==
    /\ pc = "exit"
    /\ output # <<>>
    /\ \E w \in DOMAIN workers :
          /\ workers[w].by # 0
          /\ Get(tree, workers[workers[w].by].id).next.kind = "scalar"
          /\ w \in Recorded


\* C11: for the root that lists a and b with the fragments "X" and "Y" the
\* output is "XY", and every fragment is decoded character for character as
\* the response carries it: only the casing of field names is normalized.
C11_FragmentsVerbatim ==
    /\ (pc = "exit" /\ tree = TreeUpper) => output = <<"X", "Y">>
    /\ \A w \in Fetched :
          Get(tree, workers[w].id).secret # <<>> =>
              workers[w].resp.Secret = Get(tree, workers[w].id).secret[1]

\* the fetches that have been scheduled and whose result crawl has not dequeued
Unprocessed == {w \in DOMAIN workers : w \notin Range(processed)}

\* C12: at the head of the collection loop the counter is the number of
\* scheduled fetches whose result has not been processed, which are the
\* workers still running plus the results waiting in resultsChan; the loop is
\* over exactly when that number is zero.
C12_CounterIsUnprocessed ==
    crashed = "none" =>
        /\ pc = "recv" =>
              /\ fetching = Cardinality(Unprocessed)
              /\ fetching = Cardinality({w \in DOMAIN workers :
                                workers[w].pc \in {"fetch", "send"}})
                            + Len(resultsChan)
              /\ fetching > 0
        /\ LoopDone => Unprocessed = {}

\* the loop head with a worker still fetching and a result already waiting
C12_LoopHeadWithBoth ==
    /\ pc = "recv"
    /\ crashed = "none"
    /\ fetching >= 2
    /\ resultsChan # <<>>
    /\ InNetwork # {}


\* the main goroutine is alive, has not finished and can take no step
MainBlocked ==
    /\ Running
    /\ ~ENABLED (CrawlStart \/ Receive \/ Schedule \/ Close \/ ReadEnter
                    \/ ReadVisit \/ ReadReturn)

\* C13: the main goroutine is suspended only in the receive on resultsChan,
\* never while it admits the children of a result.
C13_MainBlocksOnlyOnReceive == MainBlocked => pc = "recv"

\* C14: a worker that is about to send its result finds room in resultsChan.
C14_SendNeverBlocks ==
    \A w \in DOMAIN workers :
        (workers[w].pc = "send" /\ ~closed) => Len(resultsChan) < ResultsCap

\* C15: the fetch of a child exists only when the result of its parent has
\* been dequeued, has passed the check of its message and is in the map.
C15_ChildAfterParentProcessed ==
    \A w \in DOMAIN workers :
        workers[w].by # 0 =>
            LET p == workers[w].by IN
              /\ p \in Recorded
              /\ workers[p].pc \in {"release", "done"}
              /\ ~(workers[p].resp.Message # EmptyString
                      /\ workers[p].resp.Depth # 0)
              /\ \E i \in 1..Len(Bucket(secretsMap, workers[p].resp.ParentID)) :
                     secretsMap[workers[p].resp.ParentID][i] = EntryOf(p)

\* a grandchild of the root is being fetched
C15_GrandchildFetching ==
    \E w \in InNetwork :
        /\ workers[w].by # 0
        /\ workers[workers[w].by].by # 0


\* the positions of the children lists of the recorded sentinel results
ListedPositions ==
    {<<p, i>> \in Recorded \X (1..Len(workers)) :
        ~IsLeafResult(p) /\ i <= Len(workers[p].resp.Next)}

\* between two iterations of the loop, and after it, the fetches issued are
\* the root fetch and one per listed position
FetchesMatchListing ==
    pc \in {"recv", "close", "read", "exit"} =>
        Len(workers) = 1 + Cardinality(ListedPositions)

\* C16 as stated: no two fetches of the same identifier under the same parent,
\* and the number of fetches issued is 1 plus the number of children listed by
\* the processed sentinel nodes.
C16_NoIdentifierTwice ==
    /\ \A v, w \in DOMAIN workers :
          (v # w /\ workers[v].by = workers[w].by) => workers[v].id # workers[w].id
    /\ FetchesMatchListing

\* C16 amended: every position of the children list of a processed sentinel
\* node is scheduled exactly once, for the identifier at that position, so an
\* identifier is fetched twice under one parent only when the list names it
\* twice; the number of fetches issued is 1 plus the number of listed children.
C16_EachPositionOnce ==
    /\ \A v, w \in DOMAIN workers :
          (v # w /\ workers[v].by = workers[w].by) =>
              (workers[v].by # 0 /\ workers[v].orderIndex # workers[w].orderIndex)
    /\ \A w \in DOMAIN workers :
          workers[w].by # 0 =>
              /\ <<workers[w].by, workers[w].orderIndex + 1>> \in ListedPositions
              /\ workers[w].id = workers[workers[w].by].resp.Next[workers[w].orderIndex + 1]
    /\ FetchesMatchListing

\* an identifier listed twice by its parent has been fetched and recorded twice
C16_RepeatedChildFetchedTwice ==
    /\ LoopDone
    /\ \E v, w \in Recorded :
          /\ v # w
          /\ workers[v].by = workers[w].by
          /\ workers[v].id = workers[w].id

IsPermutation(s, t) ==
    /\ Len(s) = Len(t)
    /\ \E f \in [1..Len(s) -> 1..Len(s)] :
          Injective(f) /\ \A i \in 1..Len(s) : s[i] = t[f[i]]

\* readSecretsMap always has a step to take
WalkNeverBlocks ==
    (Running /\ pc = "read") => ENABLED (ReadEnter \/ ReadVisit \/ ReadReturn)

\* a step of readSecretsMap (the other steps that can happen during the walk
\* are those of goroutines still releasing their token)
WalkStep == pc = "read" /\ workers' = workers

\* a call for an identifier without bucket returns and does nothing else
MissingBucketIsNoError ==
    (WalkStep /\ Top.at = 0 /\ Top.id \notin DOMAIN secretsMap) =>
        (crashed' = "none" /\ output' = output /\ stack' = Pop)

\* C17 as stated: readSecretsMap leaves every bucket as it is, takes a missing
\* bucket for a node without children and never blocks.
C17_WalkReadOnly ==
    [][/\ pc = "read" => secretsMap' = secretsMap
       /\ MissingBucketIsNoError
       /\ WalkNeverBlocks
      ]_vars

\* C17 amended: readSecretsMap changes the map only by sorting, in place, the
\* bucket of the identifier it is called with: the keys stay, every bucket
\* keeps its entries, and the bucket just looked up is in ascending order of
\* OrderIndex; a missing bucket is a node without children; it never blocks.
C17_WalkOnlySorts ==
    [][/\ pc = "read" => DOMAIN secretsMap' = DOMAIN secretsMap
       /\ WalkStep =>
            /\ DOMAIN secretsMap' = DOMAIN secretsMap
            /\ \A k \in DOMAIN secretsMap :
                  /\ IsPermutation(secretsMap'[k], secretsMap[k])
                  /\ secretsMap'[k] # secretsMap[k] => (k = Top.id /\ Top.at = 0)
            /\ (Top.at = 0 /\ Top.id \in DOMAIN secretsMap) =>
                  \A i, j \in 1..Len(secretsMap'[Top.id]) :
                      i < j => secretsMap'[Top.id][i].OrderIndex
                                  <= secretsMap'[Top.id][j].OrderIndex
       /\ MissingBucketIsNoError
       /\ WalkNeverBlocks
      ]_vars

\* the entries recorded under key k, in the order crawl appended them
ArrivalBucket(k) ==
    LET under == SelectSeq(processed,
                     LAMBDA w : w \in Recorded /\ workers[w].resp.ParentID = k)
    IN [i \in 1..Len(under) |-> EntryOf(under[i])]

\* the walk is over, it has reordered a bucket and has met a missing bucket
C17_SortedInPlace ==
    /\ pc = "exit"
    /\ \E k \in DOMAIN secretsMap : secretsMap[k] # ArrivalBucket(k)
    /\ \E i \in 1..Len(visited) : visited[i].entry.ID \notin DOMAIN secretsMap


\* C18: resultsChan is closed only when no worker can still send on it: every
\* scheduled fetch has delivered its result and crawl has dequeued it, so no
\* send ever meets the closed channel.
C18_ClosedAfterLastSend ==
    /\ crashed # "send on closed channel"
    /\ (pc = "close" \/ closed) =>
          /\ resultsChan = <<>>
          /\ \A w \in DOMAIN workers :
                workers[w].pc \in {"release", "done"} /\ w \in Recorded

\* the channel is closed while a goroutine that has sent is still alive
C18_ClosedWithLiveWorker ==
    /\ closed
    /\ \E w \in DOMAIN workers : workers[w].pc = "release"

\* the positions of the map
MapPositions ==
    {<<k, i>> \in (DOMAIN secretsMap) \X (1..Len(processed)) :
        i <= Len(secretsMap[k])}

\* C19: the walk readSecretsMap terminates and visits every recorded entry
\* exactly once, also when nodes omit their id or report the id of another.
C19_WalkVisitsEachOnce ==
    /\ crashed # "stack overflow"
    /\ pc = "exit" =>
          /\ Len(visited) = Cardinality(MapPositions)
          /\ \A <<k, i>> \in MapPositions :
                \E j \in 1..Len(visited) :
                    visited[j].key = k /\ visited[j].entry = secretsMap[k][i]

\* C20: the order indices of the entries of one bucket are pairwise distinct
\* in every state; when the loop is over, a bucket holds the indices 0..n-1
\* and the bucket of the root key holds one entry, of index 0.
C20_DistinctOrderIndices ==
    /\ \A k \in DOMAIN secretsMap : \A i, j \in 1..Len(secretsMap[k]) :
          i # j => secretsMap[k][i].OrderIndex # secretsMap[k][j].OrderIndex
    /\ LoopDone =>
          /\ \A k \in DOMAIN secretsMap :
                {secretsMap[k][i].OrderIndex : i \in 1..Len(secretsMap[k])}
                    = 0..(Len(secretsMap[k]) - 1)
          /\ rootID \in DOMAIN secretsMap
          /\ Len(secretsMap[rootID]) = 1


====
